---------------------------- MODULE Spec2Model ----------------------------
(***************************************************************************)
(* Model of matlab/src/bits/impl/nnconv3d_blas.hpp: the BLAS-based 3-D     *)
(* convolution, nnconv3d_forward_blas and nnconv3d_backward_blas.          *)
(*                                                                         *)
(* Tensors are records [present, dims, mem]: dims is the 5-tuple           *)
(* (height, width, time, channels, batch) and mem the flat backing store,  *)
(* a function on 0..n-1, height varying fastest.  One action is one        *)
(* statement group of the source between two primitive calls; the          *)
(* primitives (vol2row, row2vol, gemm, gemv) and the Context are external  *)
(* to the file and are modelled by their contract.                         *)
(***************************************************************************)
EXTENDS Integers, Sequences, FiniteSets, TLC

\* ---- bounds of the model ------------------------------------------------
MaxExtent == 2      \* largest spatial volume H*W*T of one image or filter
MaxChannels == 2    \* largest channel count of data and of a filter
MaxFilters == 2     \* largest total filter count
MaxBatch == 2       \* largest batch size

Strides == {1, 2}
Pads == {0, 1}
\* (outputMult, dataMult) pairs offered to forward
Mults == {<<0, 1>>, <<1, 1>>, <<0, 2>>}

VARIABLES
  \* arguments of the call
  op, output, outputMult, data, dataMult, filters, biases,
  derData, derFilters, derBiases, derOutput, stride, pad,
  \* Context
  lastError,
  \* locals of the running call
  error, numGroups, numFiltersPerGroup, numOutputPixels, filtersVolume,
  tempVolume, tempMemory, allOnesMemory, image, g, pc,
  \* what the call returned
  status,
  \* history (ghost) variables
  ub, failedWith, primsAfterFail, tempTag, staleRead, lastGemm,
  outputBefore, hist, written, invoked

args == <<op, output, outputMult, data, dataMult, filters, biases,
          derData, derFilters, derBiases, derOutput, stride, pad>>
locals == <<error, numGroups, numFiltersPerGroup, numOutputPixels,
            filtersVolume, tempVolume, tempMemory, allOnesMemory, image, g, pc>>
ghosts == <<ub, failedWith, primsAfterFail, tempTag, staleRead, lastGemm,
            outputBefore, hist, written, invoked>>
vars == <<args, lastError, locals, status, ghosts>>

\* ---- vl::Error ----------------------------------------------------------
vlSuccess == "vlSuccess"
vlErrorOutOfMemory == "vlErrorOutOfMemory"
vlErrorCublas == "vlErrorCublas"
vlErrorUnknown == "vlErrorUnknown"
Uninit == "uninitialized"
\* what a failing primitive may report
PrimitiveErrors == {vlErrorCublas, vlErrorUnknown}
PrimitiveOutcomes == {vlSuccess} \cup PrimitiveErrors
\* the values an indeterminate vl::Error may be read as
ErrorValues == {vlSuccess, vlErrorOutOfMemory, vlErrorCublas, vlErrorUnknown}

\* ---- Tensor -------------------------------------------------------------
RECURSIVE Sum(_, _)
Sum(f, n) == IF n <= 0 THEN 0 ELSE f[n - 1] + Sum(f, n - 1)

MkMem(n, base) == [i \in 0..(n - 1) |-> base + i]
Dim(t, i) == t.dims[i + 1]
NumElements(t) == t.dims[1] * t.dims[2] * t.dims[3] * t.dims[4] * t.dims[5]
ImageVolume(t) == t.dims[1] * t.dims[2] * t.dims[3] * t.dims[4]
GetDepth(t) == t.dims[4]
Tensor(dims, base) ==
  [present |-> TRUE, dims |-> dims,
   mem |-> MkMem(dims[1] * dims[2] * dims[3] * dims[4] * dims[5], base)]
NullTensor == [present |-> FALSE, dims |-> <<0, 0, 0, 0, 0>>, mem |-> MkMem(0, 0)]
Rd(mem, idx) == IF idx \in DOMAIN mem THEN mem[idx] ELSE 0

\* ---- vol2row / row2vol --------------------------------------------------
OutExtent(in, padLo, padHi, f, s) == (in + padLo + padHi - f) \div s + 1

\* Index, within one image of dims (H, W, T, C), of the element that entry q
\* of the patch matrix is taken from; -1 when it falls into the padding.
PatchSource(q, H, W, T, C, fH, fW, fT, st, pd) ==
  LET oH == OutExtent(H, pd[1], pd[2], fH, st[1])
      oW == OutExtent(W, pd[3], pd[4], fW, st[2])
      oT == OutExtent(T, pd[5], pd[5], fT, st[3])
      nPix == oH * oW * oT
      p == q % nPix
      col == q \div nPix
      oy == p % oH
      ox == (p \div oH) % oW
      ot == p \div (oH * oW)
      dy == col % fH
      dx == (col \div fH) % fW
      dt == (col \div (fH * fW)) % fT
      c == col \div (fH * fW * fT)
      y == oy * st[1] - pd[1] + dy
      x == ox * st[2] - pd[3] + dx
      t == ot * st[3] - pd[5] + dt
  IN IF y \in 0..(H - 1) /\ x \in 0..(W - 1) /\ t \in 0..(T - 1)
     THEN y + H * (x + W * (t + T * c))
     ELSE -1

PatchEntries(H, W, T, C, fH, fW, fT, st, pd) ==
  OutExtent(H, pd[1], pd[2], fH, st[1]) * OutExtent(W, pd[3], pd[4], fW, st[2])
    * OutExtent(T, pd[5], pd[5], fT, st[3]) * fH * fW * fT * C

Vol2row(dst, src, srcOff, H, W, T, C, fH, fW, fT, st, pd) ==
  [q \in DOMAIN dst |->
     IF q < PatchEntries(H, W, T, C, fH, fW, fT, st, pd)
     THEN LET s == PatchSource(q, H, W, T, C, fH, fW, fT, st, pd)
          IN IF s < 0 THEN 0 ELSE Rd(src, srcOff + s)
     ELSE dst[q]]

Row2vol(dst, dstOff, src, H, W, T, C, fH, fW, fT, st, pd) ==
  LET n == PatchEntries(H, W, T, C, fH, fW, fT, st, pd)
  IN [idx \in DOMAIN dst |->
        IF idx >= dstOff /\ idx < dstOff + H * W * T * C
        THEN Sum([q \in 0..(n - 1) |->
                    IF PatchSource(q, H, W, T, C, fH, fW, fT, st, pd) = idx - dstOff
                    THEN Rd(src, q) ELSE 0], n)
        ELSE dst[idx]]

\* ---- blas<>::gemm, blas<>::gemv (column-major) --------------------------
OpElem(trans, M, off, ld, r, c) ==
  IF trans = "n" THEN Rd(M, off + r + ld * c) ELSE Rd(M, off + c + ld * r)

\* C <- alpha * op(A) * op(B) + beta * C, op(A) m x k, op(B) k x n, C m x n
Gemm(transA, transB, m, n, k, alpha, A, aOff, lda, B, bOff, ldb, beta, C, cOff, ldc) ==
  [idx \in DOMAIN C |->
     LET rel == idx - cOff
     IN IF rel >= 0 /\ ldc > 0 /\ (rel % ldc) < m /\ (rel \div ldc) < n
        THEN alpha * Sum([l \in 0..(k - 1) |->
                            OpElem(transA, A, aOff, lda, rel % ldc, l)
                              * OpElem(transB, B, bOff, ldb, l, rel \div ldc)], k)
               + (IF beta = 0 THEN 0 ELSE beta * C[idx])
        ELSE C[idx]]

GemmWrites(m, n, cOff, ldc) ==
  {cOff + i + ldc * j : i \in 0..(m - 1), j \in 0..(n - 1)}
GemmReads(trans, rows, cols, off, ld) ==
  {IF trans = "n" THEN off + r + ld * c ELSE off + c + ld * r :
     r \in 0..(rows - 1), c \in 0..(cols - 1)}

\* trans = 't': y <- alpha * A' * x + beta * y, A m x n, y of length n
Gemv(m, n, alpha, A, aOff, lda, x, incx, beta, y, incy) ==
  [idx \in DOMAIN y |->
     IF incy > 0 /\ idx % incy = 0 /\ (idx \div incy) < n
     THEN alpha * Sum([i \in 0..(m - 1) |->
                         Rd(A, aOff + i + lda * (idx \div incy)) * Rd(x, i * incx)], m)
            + (IF beta = 0 THEN 0 ELSE beta * y[idx])
     ELSE y[idx]]

\* ---- Context ------------------------------------------------------------
PassError(err) == err
\* the workspace comes with whatever an earlier user left in it
Workspace(n) == MkMem(n, 900)
AllOnes(n) == [i \in 0..(n - 1) |-> 1]

\* ---- shared bookkeeping -------------------------------------------------
None == "none"
JunkTag == <<-1, "junk">>
NoGemm == [img |-> -1, grp |-> -1, readsA |-> {}, readsB |-> {}, writes |-> {}]

\* An integer division as the build may execute it: by zero it is undefined
\* (a trap, or some quotient).
DivOutcomes(a, b) ==
  IF b # 0
  THEN {[trap |-> FALSE, undef |-> FALSE, q |-> a \div b]}
  ELSE {[trap |-> TRUE, undef |-> TRUE, q |-> 0],
        [trap |-> FALSE, undef |-> TRUE, q |-> 0],
        [trap |-> FALSE, undef |-> TRUE, q |-> a]}

\* undefined behaviour executed so far, by kind
Flag(cond, kind) == IF cond THEN ub \cup {kind} ELSE ub

\* history of failures and of the primitives invoked: the first failing step, and whether a primitive was
\* invoked after it
NoteStep(err, name) ==
  /\ invoked' = invoked \cup {name}
  /\ primsAfterFail' = (primsAfterFail \/ failedWith # None)
  /\ failedWith' = IF failedWith = None /\ err # vlSuccess THEN err ELSE failedWith

\* ---- nnconv3d_forward_blas ----------------------------------------------
dataOffset(img) == (Dim(data, 0) * Dim(data, 1) * Dim(data, 2) * Dim(data, 3)) * img
\* mutant: the image stride without the channel count
outputOffsetNoChannels(img) ==
  (Dim(output, 0) * Dim(output, 1) * Dim(output, 2)) * img
outputOffset(img) ==
  (Dim(output, 0) * Dim(output, 1) * Dim(output, 2) * Dim(output, 3)) * img
filterGrpOffset(grp) == filtersVolume * numFiltersPerGroup * grp
\* mutant: the group stride of the patch matrix without the pixel count
tempGrpOffsetNoPixels(grp) == filtersVolume * grp
tempGrpOffset(grp) == numOutputPixels * filtersVolume * grp
outputGrpOffset(grp) == numOutputPixels * numFiltersPerGroup * grp

\* type alpha = dataMult ; type beta = outputMult ;
FwdAlpha == dataMult
FwdBeta == outputMult
\* the bias update: type alpha = 1 ; type beta = 1 ;
FwdBiasAlpha == 1
\* mutant: the bias update scaled like the product
FwdBiasBetaScaled == outputMult
FwdBiasBeta == 1

\* if (error != vl::vlSuccess) { goto done ; }
\* mutant: the check of the primitive's status left out
OnErrorContinue(err, next) == next
OnError(err, next) == IF err # vlSuccess THEN "done" ELSE next

FwdNextImage(img) == IF img < Dim(data, 4) THEN "fwd_unfold" ELSE "done"

FwdPlan ==
  /\ pc = "fwd_plan"
  /\ numGroups' = Dim(data, 3) \div Dim(filters, 3)
  /\ numOutputPixels' = Dim(output, 0) * Dim(output, 1) * Dim(output, 2)
  /\ filtersVolume' =
       Dim(filters, 0) * Dim(filters, 1) * Dim(filters, 2) * Dim(filters, 3)
  /\ \E d \in DivOutcomes(Dim(filters, 4), numGroups') :
       /\ numFiltersPerGroup' = d.q
       /\ ub' = Flag(d.undef, "div0")
       /\ pc' = IF d.trap THEN "trap" ELSE "fwd_acquire"
  /\ tempVolume' = numOutputPixels' * filtersVolume' * numGroups'
  /\ UNCHANGED <<args, lastError, error, tempMemory, allOnesMemory, image, g, status,
                 failedWith, primsAfterFail, tempTag, staleRead, lastGemm,
                 outputBefore, hist, written, invoked>>

FwdAcquire ==
  /\ pc = "fwd_acquire"
  /\ \E ok \in BOOLEAN :
       IF ok
       THEN /\ tempMemory' = Workspace(tempVolume)
            /\ tempTag' = [i \in 0..(tempVolume - 1) |-> JunkTag]
            /\ allOnesMemory' = AllOnes(numOutputPixels)
            /\ image' = 0
            /\ pc' = FwdNextImage(0)
            /\ UNCHANGED <<lastError, error, failedWith>>
       ELSE /\ lastError' = vlErrorOutOfMemory
            /\ error' = lastError'
            /\ failedWith' = IF failedWith = None THEN lastError' ELSE failedWith
            /\ pc' = "done"
            /\ UNCHANGED <<tempMemory, tempTag, allOnesMemory, image>>
  /\ UNCHANGED <<args, numGroups, numFiltersPerGroup, numOutputPixels, filtersVolume,
                 tempVolume, g, status, ub, primsAfterFail, staleRead, lastGemm,
                 outputBefore, hist, written, invoked>>

FwdUnfold ==
  /\ pc = "fwd_unfold"
  /\ \E err \in PrimitiveOutcomes :
       /\ error' = err
       /\ NoteStep(err, "vol2row")
       /\ pc' = OnError(err, IF numGroups > 0 THEN "fwd_gemm"
                             ELSE IF biases.present THEN "fwd_bias"
                             ELSE FwdNextImage(image + 1))
       /\ image' = IF pc' \in {"fwd_unfold", "done"} /\ err = vlSuccess
                   THEN image + 1 ELSE image
       /\ IF err = vlSuccess
          THEN /\ tempMemory' =
                    Vol2row(tempMemory, data.mem, dataOffset(image),
                            Dim(data, 0), Dim(data, 1), Dim(data, 2), Dim(data, 3),
                            Dim(filters, 0), Dim(filters, 1), Dim(filters, 2),
                            stride, pad)
               /\ tempTag' =
                    [q \in DOMAIN tempTag |->
                       IF q < PatchEntries(Dim(data, 0), Dim(data, 1), Dim(data, 2),
                                           Dim(data, 3), Dim(filters, 0),
                                           Dim(filters, 1), Dim(filters, 2), stride, pad)
                       THEN <<image, "unfold">> ELSE tempTag[q]]
               /\ ub' = Flag(PatchEntries(Dim(data, 0), Dim(data, 1), Dim(data, 2),
                                             Dim(data, 3), Dim(filters, 0),
                                             Dim(filters, 1), Dim(filters, 2),
                                             stride, pad) > tempVolume,
                         "overflow")
          ELSE UNCHANGED <<tempMemory, tempTag, ub>>
  /\ g' = 0
  /\ UNCHANGED <<args, lastError, numGroups, numFiltersPerGroup, numOutputPixels,
                 filtersVolume, tempVolume, allOnesMemory, status, staleRead,
                 lastGemm, outputBefore, hist, written>>

FwdGemm ==
  /\ pc = "fwd_gemm"
  /\ \E err \in PrimitiveOutcomes :
       LET alpha == FwdAlpha
           beta == FwdBeta
           readsA == GemmReads("n", numOutputPixels, filtersVolume,
                               tempGrpOffset(g), numOutputPixels)
           readsB == GemmReads("n", filtersVolume, numFiltersPerGroup,
                               filterGrpOffset(g), filtersVolume)
           writes == GemmWrites(numOutputPixels, numFiltersPerGroup,
                                outputOffset(image) + outputGrpOffset(g),
                                numOutputPixels)
           more == g + 1 < numGroups
       IN
       /\ error' = err
       /\ NoteStep(err, "gemm")
       /\ pc' = OnError(err, IF more THEN "fwd_gemm"
                             ELSE IF biases.present THEN "fwd_bias"
                             ELSE FwdNextImage(image + 1))
       /\ g' = IF err = vlSuccess THEN g + 1 ELSE g
       /\ image' = IF err = vlSuccess /\ ~more /\ ~biases.present
                   THEN image + 1 ELSE image
       /\ IF err = vlSuccess
          THEN /\ output' =
                    [output EXCEPT !.mem =
                       Gemm("n", "n", numOutputPixels, numFiltersPerGroup, filtersVolume,
                            alpha,
                            tempMemory, tempGrpOffset(g), numOutputPixels,
                            filters.mem, filterGrpOffset(g), filtersVolume,
                            beta,
                            output.mem, outputOffset(image) + outputGrpOffset(g),
                            numOutputPixels)]
               /\ lastGemm' = [img |-> image, grp |-> g, readsA |-> readsA,
                               readsB |-> readsB, writes |-> writes]
               /\ staleRead' = (staleRead \/
                                 \E q \in readsA \cap DOMAIN tempTag :
                                   tempTag[q] # <<image, "unfold">>)
               /\ ub' = Flag(~(readsA \subseteq DOMAIN tempMemory)
                            \/ ~(readsB \subseteq DOMAIN filters.mem)
                            \/ ~(writes \subseteq DOMAIN output.mem),
                         "overflow")
               /\ written' = IF writes = {} THEN written ELSE written \cup {"output"}
          ELSE UNCHANGED <<output, lastGemm, staleRead, ub, written>>
  /\ UNCHANGED <<op, outputMult, data, dataMult, filters, biases, derData, derFilters,
                 derBiases, derOutput, stride, pad, lastError, numGroups,
                 numFiltersPerGroup, numOutputPixels, filtersVolume, tempVolume,
                 tempMemory, allOnesMemory, status, tempTag, outputBefore, hist>>

FwdBias ==
  /\ pc = "fwd_bias"
  /\ \E err \in PrimitiveOutcomes :
       LET alpha == FwdBiasAlpha
           beta == FwdBiasBeta
           n == NumElements(biases)
           writes == GemmWrites(numOutputPixels, n, outputOffset(image), numOutputPixels)
       IN
       /\ error' = err
       /\ NoteStep(err, "gemm")
       /\ pc' = OnError(err, FwdNextImage(image + 1))
       /\ image' = IF err = vlSuccess THEN image + 1 ELSE image
       /\ IF err = vlSuccess
          THEN /\ output' =
                    [output EXCEPT !.mem =
                       Gemm("n", "n", numOutputPixels, n, 1,
                            alpha,
                            allOnesMemory, 0, numOutputPixels,
                            biases.mem, 0, 1,
                            beta,
                            output.mem, outputOffset(image), numOutputPixels)]
               /\ ub' = Flag(~(writes \subseteq DOMAIN output.mem),
                         "overflow")
               /\ written' = written \cup {"output"}
          ELSE UNCHANGED <<output, ub, written>>
  /\ UNCHANGED <<op, outputMult, data, dataMult, filters, biases, derData, derFilters,
                 derBiases, derOutput, stride, pad, lastError, numGroups,
                 numFiltersPerGroup, numOutputPixels, filtersVolume, tempVolume,
                 tempMemory, allOnesMemory, g, status, tempTag, staleRead, lastGemm,
                 outputBefore, hist>>

\* done: return context.passError(error, ...) ; an error never assigned is
\* read as an indeterminate value
Done ==
  /\ pc = "done"
  /\ \E v \in (IF error = Uninit THEN ErrorValues ELSE {error}) :
       status' = PassError(v)
  /\ ub' = Flag(error = Uninit, "uninit")
  /\ pc' = "returned"
  /\ UNCHANGED <<args, lastError, error, numGroups, numFiltersPerGroup,
                 numOutputPixels, filtersVolume, tempVolume, tempMemory,
                 allOnesMemory, image, g, failedWith, primsAfterFail, tempTag,
                 staleRead, lastGemm, outputBefore, hist, written, invoked>>

\* A further forward call on the same output buffer, with new scale factors.
CallAgain ==
  /\ pc = "returned"
  /\ op = "forward"
  /\ status = vlSuccess
  /\ Len(hist) = 1
  /\ \E m \in Mults :
       /\ outputMult' = m[1]
       /\ dataMult' = m[2]
       /\ hist' = Append(hist, m)
  /\ outputBefore' = output.mem
  /\ error' = Uninit
  /\ numGroups' = 0
  /\ numFiltersPerGroup' = 0
  /\ numOutputPixels' = 0
  /\ filtersVolume' = 0
  /\ tempVolume' = 0
  /\ tempMemory' = MkMem(0, 0)
  /\ tempTag' = MkMem(0, 0)
  /\ allOnesMemory' = MkMem(0, 0)
  /\ image' = 0
  /\ g' = 0
  /\ pc' = "fwd_plan"
  /\ status' = None
  /\ failedWith' = None
  /\ primsAfterFail' = FALSE
  /\ lastGemm' = NoGemm
  /\ invoked' = {}
  /\ UNCHANGED <<op, output, data, filters, biases, derData, derFilters, derBiases,
                 derOutput, stride, pad, lastError, ub, staleRead, written>>

\* ---- nnconv3d_backward_blas ---------------------------------------------
derOutputOffset(img) ==
  (Dim(derOutput, 0) * Dim(derOutput, 1) * Dim(derOutput, 2) * Dim(derOutput, 3)) * img
derDataOffset(img) ==
  (Dim(derData, 0) * Dim(derData, 1) * Dim(derData, 2) * Dim(derData, 3)) * img
derOutputGrpOffset(grp) == numOutputPixels * numFiltersPerGroup * grp

\* type beta = (image > 0) ;
\* mutant: always accumulate
BiasBetaAlways(img) == 1
BiasBeta(img) == IF img > 0 THEN 1 ELSE 0
\* mutant: always overwrite
FilterBetaNever(img) == 0
FilterBeta(img) == IF img > 0 THEN 1 ELSE 0
\* float beta = 0 ;
\* mutant: the accumulation flag of the other two branches
DataBetaAccumulate(img) == IF img > 0 THEN 1 ELSE 0
DataBeta(img) == 0

\* if (error != vl::vlSuccess) { return error ; }
BwdOnError(err, next) == IF err # vlSuccess THEN "returned" ELSE next

\* Where the per-image loop goes next: [pc, image].
BwdEnter(img) ==
  IF img >= Dim(derOutput, 4)
       \/ ~(derBiases.present \/ derData.present \/ derFilters.present)
  THEN [pc |-> "done", image |-> img]
  ELSE [pc |-> IF derBiases.present THEN "bwd_bias"
               ELSE IF derData.present
                    THEN (IF numGroups > 0 THEN "bwd_data_gemm" ELSE "bwd_fold")
                    ELSE "bwd_unfold",
        image |-> img]
BwdAfterData(img) ==
  IF derFilters.present THEN [pc |-> "bwd_unfold", image |-> img] ELSE BwdEnter(img + 1)
BwdAfterBias(img) ==
  IF derData.present
  THEN [pc |-> IF numGroups > 0 THEN "bwd_data_gemm" ELSE "bwd_fold", image |-> img]
  ELSE BwdAfterData(img)
BwdAfterUnfold(img) ==
  IF numGroups > 0 THEN [pc |-> "bwd_filter_gemm", image |-> img] ELSE BwdEnter(img + 1)

\* the effect on pc, image, status and error of a primitive that reported err
BwdStep(err, next, name) ==
  /\ error' = err
  /\ NoteStep(err, name)
  /\ pc' = BwdOnError(err, next.pc)
  /\ image' = IF err = vlSuccess THEN next.image ELSE image
  /\ status' = IF pc' = "returned" THEN err ELSE status

BwdOnes ==
  /\ pc = "bwd_ones"
  /\ numOutputPixels' = Dim(derOutput, 0) * Dim(derOutput, 1) * Dim(derOutput, 2)
  /\ \E ok \in (IF derBiases.present THEN BOOLEAN ELSE {TRUE}) :
       IF ok
       THEN /\ allOnesMemory' = IF derBiases.present THEN AllOnes(numOutputPixels')
                                ELSE allOnesMemory
            /\ pc' = "bwd_plan"
            /\ UNCHANGED <<lastError, error, failedWith>>
       ELSE /\ lastError' = vlErrorOutOfMemory
            /\ error' = lastError'
            /\ failedWith' = IF failedWith = None THEN lastError' ELSE failedWith
            /\ pc' = "done"
            /\ UNCHANGED allOnesMemory
  /\ UNCHANGED <<args, numGroups, numFiltersPerGroup, filtersVolume, tempVolume,
                 tempMemory, image, g, status, ub, primsAfterFail, tempTag, staleRead,
                 lastGemm, outputBefore, hist, written, invoked>>

BwdPlan ==
  /\ pc = "bwd_plan"
  /\ numGroups' = IF derData.present THEN Dim(derData, 3) \div Dim(filters, 3)
                  ELSE IF derFilters.present THEN Dim(data, 3) \div Dim(derFilters, 3)
                  ELSE 0
  /\ filtersVolume' =
       IF derData.present
       THEN Dim(filters, 0) * Dim(filters, 1) * Dim(filters, 2) * Dim(filters, 3)
       ELSE IF derFilters.present
            THEN Dim(derFilters, 0) * Dim(derFilters, 1) * Dim(derFilters, 2)
                   * Dim(derFilters, 3)
            ELSE 0
  /\ \E d \in DivOutcomes(Dim(derOutput, 3), numGroups') :
       /\ numFiltersPerGroup' = d.q
       /\ ub' = Flag(d.undef, "div0")
       /\ pc' = IF d.trap THEN "trap" ELSE "bwd_workspace"
  /\ UNCHANGED <<args, lastError, error, numOutputPixels, tempVolume, tempMemory,
                 allOnesMemory, image, g, status, failedWith, primsAfterFail, tempTag,
                 staleRead, lastGemm, outputBefore, hist, written, invoked>>

BwdWorkspace ==
  /\ pc = "bwd_workspace"
  /\ tempVolume' = numOutputPixels * filtersVolume * numGroups
  /\ \E ok \in (IF tempVolume' # 0 THEN BOOLEAN ELSE {TRUE}) :
       IF ok
       THEN /\ tempMemory' = IF tempVolume' # 0 THEN Workspace(tempVolume')
                             ELSE tempMemory
            /\ tempTag' = [i \in 0..(tempVolume' - 1) |-> JunkTag]
            /\ image' = BwdEnter(0).image
            /\ pc' = BwdEnter(0).pc
            /\ UNCHANGED <<lastError, error, failedWith>>
       ELSE /\ lastError' = vlErrorOutOfMemory
            /\ error' = lastError'
            /\ failedWith' = IF failedWith = None THEN lastError' ELSE failedWith
            /\ pc' = "done"
            /\ UNCHANGED <<tempMemory, tempTag, image>>
  /\ g' = 0
  /\ UNCHANGED <<args, numGroups, numFiltersPerGroup, numOutputPixels, filtersVolume,
                 allOnesMemory, status, ub, primsAfterFail, staleRead, lastGemm,
                 outputBefore, hist, written, invoked>>

BwdBias ==
  /\ pc = "bwd_bias"
  /\ \E err \in PrimitiveOutcomes :
       LET alpha == 1
           beta == BiasBeta(image)
       IN
       /\ BwdStep(err, BwdAfterBias(image), "gemv")
       /\ IF err = vlSuccess
          THEN /\ derBiases' =
                    [derBiases EXCEPT !.mem =
                       Gemv(numOutputPixels, GetDepth(derOutput),
                            alpha,
                            derOutput.mem, derOutputOffset(image), numOutputPixels,
                            allOnesMemory, 1,
                            beta,
                            derBiases.mem, 1)]
               /\ written' = written \cup {"derBiases"}
          ELSE UNCHANGED <<derBiases, written>>
  /\ g' = 0
  /\ UNCHANGED <<op, output, outputMult, data, dataMult, filters, biases, derData,
                 derFilters, derOutput, stride, pad, lastError, numGroups,
                 numFiltersPerGroup, numOutputPixels, filtersVolume, tempVolume,
                 tempMemory, allOnesMemory, ub, tempTag, staleRead, lastGemm,
                 outputBefore, hist>>

BwdDataGemm ==
  /\ pc = "bwd_data_gemm"
  /\ \E err \in PrimitiveOutcomes :
       LET alpha == 1
           beta == DataBeta(image)
           readsA == GemmReads("n", numOutputPixels, numFiltersPerGroup,
                               derOutputOffset(image) + derOutputGrpOffset(g),
                               numOutputPixels)
           readsB == GemmReads("t", filtersVolume, numFiltersPerGroup,
                               filterGrpOffset(g), filtersVolume)
           writes == GemmWrites(numOutputPixels, filtersVolume, tempGrpOffset(g),
                                numOutputPixels)
       IN
       /\ BwdStep(err, IF g + 1 < numGroups
                       THEN [pc |-> "bwd_data_gemm", image |-> image]
                       ELSE [pc |-> "bwd_fold", image |-> image], "gemm")
       /\ g' = IF err = vlSuccess THEN g + 1 ELSE g
       /\ IF err = vlSuccess
          THEN /\ tempMemory' =
                    Gemm("n", "t", numOutputPixels, filtersVolume, numFiltersPerGroup,
                         alpha,
                         derOutput.mem, derOutputOffset(image) + derOutputGrpOffset(g),
                         numOutputPixels,
                         filters.mem, filterGrpOffset(g), filtersVolume,
                         beta,
                         tempMemory, tempGrpOffset(g), numOutputPixels)
               /\ tempTag' = [q \in DOMAIN tempTag |->
                                IF q \in writes THEN <<image, "dzdx">> ELSE tempTag[q]]
               /\ staleRead' = (staleRead \/
                                 (beta # 0 /\ \E q \in writes \cap DOMAIN tempTag :
                                                tempTag[q] # <<image, "dzdx">>))
               /\ ub' = Flag(~(readsA \subseteq DOMAIN derOutput.mem)
                            \/ ~(readsB \subseteq DOMAIN filters.mem)
                            \/ ~(writes \subseteq DOMAIN tempMemory),
                         "overflow")
          ELSE UNCHANGED <<tempMemory, tempTag, staleRead, ub>>
  /\ UNCHANGED <<args, lastError, numGroups, numFiltersPerGroup, numOutputPixels,
                 filtersVolume, tempVolume, allOnesMemory, lastGemm, outputBefore,
                 hist, written>>

BwdFold ==
  /\ pc = "bwd_fold"
  /\ \E err \in PrimitiveOutcomes :
       LET n == PatchEntries(Dim(derData, 0), Dim(derData, 1), Dim(derData, 2),
                             Dim(derData, 3), Dim(filters, 0), Dim(filters, 1),
                             Dim(filters, 2), stride, pad)
       IN
       /\ BwdStep(err, BwdAfterData(image), "row2vol")
       /\ IF err = vlSuccess
          THEN /\ derData' =
                    [derData EXCEPT !.mem =
                       Row2vol(derData.mem, derDataOffset(image), tempMemory,
                               Dim(derData, 0), Dim(derData, 1), Dim(derData, 2),
                               Dim(derData, 3),
                               Dim(filters, 0), Dim(filters, 1), Dim(filters, 2),
                               stride, pad)]
               /\ staleRead' = (staleRead \/
                                 \E q \in (0..(n - 1)) \cap DOMAIN tempTag :
                                   tempTag[q] # <<image, "dzdx">>)
               /\ ub' = Flag(n > tempVolume,
                         "overflow")
               /\ written' = written \cup {"derData"}
          ELSE UNCHANGED <<derData, staleRead, ub, written>>
  /\ g' = 0
  /\ UNCHANGED <<op, output, outputMult, data, dataMult, filters, biases, derFilters,
                 derBiases, derOutput, stride, pad, lastError, numGroups,
                 numFiltersPerGroup, numOutputPixels, filtersVolume, tempVolume,
                 tempMemory, allOnesMemory, tempTag, lastGemm, outputBefore, hist>>

BwdUnfold ==
  /\ pc = "bwd_unfold"
  /\ \E err \in PrimitiveOutcomes :
       LET n == PatchEntries(Dim(data, 0), Dim(data, 1), Dim(data, 2), Dim(data, 3),
                             Dim(derFilters, 0), Dim(derFilters, 1), Dim(derFilters, 2),
                             stride, pad)
       IN
       /\ BwdStep(err, BwdAfterUnfold(image), "vol2row")
       /\ IF err = vlSuccess
          THEN /\ tempMemory' =
                    Vol2row(tempMemory, data.mem, dataOffset(image),
                            Dim(data, 0), Dim(data, 1), Dim(data, 2), Dim(data, 3),
                            Dim(derFilters, 0), Dim(derFilters, 1), Dim(derFilters, 2),
                            stride, pad)
               /\ tempTag' = [q \in DOMAIN tempTag |->
                                IF q < n THEN <<image, "dzdF">> ELSE tempTag[q]]
               /\ ub' = Flag(n > tempVolume,
                         "overflow")
          ELSE UNCHANGED <<tempMemory, tempTag, ub>>
  /\ g' = 0
  /\ UNCHANGED <<args, lastError, numGroups, numFiltersPerGroup, numOutputPixels,
                 filtersVolume, tempVolume, allOnesMemory, staleRead, lastGemm,
                 outputBefore, hist, written>>

BwdFilterGemm ==
  /\ pc = "bwd_filter_gemm"
  /\ \E err \in PrimitiveOutcomes :
       LET alpha == 1
           beta == FilterBeta(image)
           readsA == GemmReads("t", filtersVolume, numOutputPixels,
                               tempGrpOffset(g), numOutputPixels)
           readsB == GemmReads("n", numOutputPixels, numFiltersPerGroup,
                               derOutputOffset(image) + derOutputGrpOffset(g),
                               numOutputPixels)
           writes == GemmWrites(filtersVolume, numFiltersPerGroup,
                                filterGrpOffset(g), filtersVolume)
       IN
       /\ BwdStep(err, IF g + 1 < numGroups
                       THEN [pc |-> "bwd_filter_gemm", image |-> image]
                       ELSE BwdEnter(image + 1), "gemm")
       /\ g' = IF err # vlSuccess THEN g ELSE IF g + 1 < numGroups THEN g + 1 ELSE 0
       /\ IF err = vlSuccess
          THEN /\ derFilters' =
                    [derFilters EXCEPT !.mem =
                       Gemm("t", "n", filtersVolume, numFiltersPerGroup, numOutputPixels,
                            alpha,
                            tempMemory, tempGrpOffset(g), numOutputPixels,
                            derOutput.mem, derOutputOffset(image) + derOutputGrpOffset(g),
                            numOutputPixels,
                            beta,
                            derFilters.mem, filterGrpOffset(g), filtersVolume)]
               /\ staleRead' = (staleRead \/
                                 \E q \in readsA \cap DOMAIN tempTag :
                                   tempTag[q] # <<image, "dzdF">>)
               /\ ub' = Flag(~(readsA \subseteq DOMAIN tempMemory)
                            \/ ~(readsB \subseteq DOMAIN derOutput.mem)
                            \/ ~(writes \subseteq DOMAIN derFilters.mem),
                         "overflow")
               /\ written' = IF writes = {} THEN written
                             ELSE written \cup {"derFilters"}
          ELSE UNCHANGED <<derFilters, staleRead, ub, written>>
  /\ UNCHANGED <<op, output, outputMult, data, dataMult, filters, biases, derData,
                 derBiases, derOutput, stride, pad, lastError, numGroups,
                 numFiltersPerGroup, numOutputPixels, filtersVolume, tempVolume,
                 tempMemory, allOnesMemory, tempTag, lastGemm, outputBefore, hist>>

\* ---- a one-image backward call, filter-gradient branch -------------------
\* image j of tensor t, as a batch of one
OneImage(t, j) ==
  [present |-> TRUE,
   dims |-> <<Dim(t, 0), Dim(t, 1), Dim(t, 2), Dim(t, 3), 1>>,
   mem |-> [i \in 0..(ImageVolume(t) - 1) |-> t.mem[ImageVolume(t) * j + i]]]

\* the loop over the groups, for image 0 of a batch of one
RECURSIVE FilterGemmLoop(_, _, _, _)
FilterGemmLoop(grp, dF, temp, dOut) ==
  IF grp >= numGroups THEN dF
  ELSE FilterGemmLoop(grp + 1,
                      Gemm("t", "n", filtersVolume, numFiltersPerGroup, numOutputPixels,
                           1,
                           temp, tempGrpOffset(grp), numOutputPixels,
                           dOut, derOutputGrpOffset(grp), numOutputPixels,
                           FilterBeta(0),
                           dF, filterGrpOffset(grp), filtersVolume),
                      temp, dOut)

\* derFilters after backward on the batch made of image j alone, the
\* destination holding prior before the call
OneImageFilterGrad(j, prior) ==
  FilterGemmLoop(0, prior,
                 Vol2row(Workspace(tempVolume), OneImage(data, j).mem, 0,
                         Dim(data, 0), Dim(data, 1), Dim(data, 2), Dim(data, 3),
                         Dim(derFilters, 0), Dim(derFilters, 1), Dim(derFilters, 2),
                         stride, pad),
                 OneImage(derOutput, j).mem)

\* ---- the calls the model makes ------------------------------------------
SpatialShapes ==
  {s \in (1..MaxExtent) \X (1..MaxExtent) \X (1..MaxExtent) :
     s[1] * s[2] * s[3] <= MaxExtent}

\* the data model's invariants on the channel and filter counts
ShapesValid(C, fC, K) == C % fC = 0 /\ K % (C \div fC) = 0

Start(validOnly) ==
  \E dS \in SpatialShapes, fS \in SpatialShapes, s \in Strides, pt \in Pads,
     C \in 1..MaxChannels, fC \in 1..MaxChannels, K \in 1..MaxFilters,
     N \in 0..MaxBatch :
    LET oH == OutExtent(dS[1], pt, 0, fS[1], s)
        oW == OutExtent(dS[2], 0, 0, fS[2], s)
        oT == OutExtent(dS[3], 0, 0, fS[3], s)
    IN
    /\ fS[1] <= dS[1] + pt /\ fS[2] <= dS[2] /\ fS[3] <= dS[3]
    /\ validOnly => ShapesValid(C, fC, K)
    /\ stride = <<s, s, s>>
    /\ pad = <<pt, 0, 0, 0, 0>>
    /\ data = Tensor(<<dS[1], dS[2], dS[3], C, N>>, 1)
    /\ filters = Tensor(<<fS[1], fS[2], fS[3], fC, K>>, 2)
    /\ \/ /\ op = "forward"
          /\ output = Tensor(<<oH, oW, oT, K, N>>, 50)
          /\ \E m \in Mults : outputMult = m[1] /\ dataMult = m[2]
          /\ biases \in {NullTensor, Tensor(<<K, 1, 1, 1, 1>>, 5)}
          /\ derOutput = NullTensor
          /\ derData = NullTensor
          /\ derFilters = NullTensor
          /\ derBiases = NullTensor
          /\ pc = "fwd_plan"
       \/ /\ op = "backward"
          /\ output = NullTensor
          /\ outputMult = 0 /\ dataMult = 0
          /\ biases = NullTensor
          /\ derOutput = Tensor(<<oH, oW, oT, K, N>>, 3)
          /\ derData \in {NullTensor, Tensor(<<dS[1], dS[2], dS[3], C, N>>, 60)}
          /\ derFilters \in {NullTensor, Tensor(<<fS[1], fS[2], fS[3], fC, K>>, 70)}
          /\ derBiases \in {NullTensor, Tensor(<<K, 1, 1, 1, 1>>, 30)}
          /\ pc = "bwd_ones"
    /\ lastError = vlSuccess
    /\ error = Uninit
    /\ numGroups = 0
    /\ numFiltersPerGroup = 0
    /\ numOutputPixels = 0
    /\ filtersVolume = 0
    /\ tempVolume = 0
    /\ tempMemory = MkMem(0, 0)
    /\ tempTag = MkMem(0, 0)
    /\ allOnesMemory = MkMem(0, 0)
    /\ image = 0
    /\ g = 0
    /\ status = None
    /\ ub = {}
    /\ failedWith = None
    /\ primsAfterFail = FALSE
    /\ staleRead = FALSE
    /\ lastGemm = NoGemm
    /\ outputBefore = output.mem
    /\ hist = IF op = "forward" THEN <<<<outputMult, dataMult>>>> ELSE <<>>
    /\ written = {}
    /\ invoked = {}

Init == Start(TRUE)
InitAnyShape == Start(FALSE)

Next ==
  \/ FwdPlan \/ FwdAcquire \/ FwdUnfold \/ FwdGemm \/ FwdBias
  \/ BwdOnes \/ BwdPlan \/ BwdWorkspace \/ BwdBias \/ BwdDataGemm \/ BwdFold
  \/ BwdUnfold \/ BwdFilterGemm
  \/ Done \/ CallAgain

\* calls whose shapes satisfy the data model's invariants
Spec == Init /\ [][Next]_vars
\* calls with any channel and filter counts
SpecAnyShape == InitAnyShape /\ [][Next]_vars

\* ---- reference values ----------------------------------------------------
\* Element (y, x, t, c, n) of a tensor, zero in the padding.
At(t, y, x, z, c, n) ==
  IF y \in 0..(Dim(t, 0) - 1) /\ x \in 0..(Dim(t, 1) - 1) /\ z \in 0..(Dim(t, 2) - 1)
  THEN t.mem[y + Dim(t, 0) * (x + Dim(t, 1) * (z + Dim(t, 2) * (c + Dim(t, 3) * n)))]
  ELSE 0

\* Ungrouped convolution of d with filter kk of f at output position
\* (oy, ox, ot) of image n: every channel of d meets the same channel of f.
DirectConv(d, f, oy, ox, ot, kk, n) ==
  LET fH == Dim(f, 0)
      fW == Dim(f, 1)
      fT == Dim(f, 2)
      vol == fH * fW * fT * Dim(f, 3)
  IN Sum([r \in 0..(vol - 1) |->
            At(d, oy * stride[1] - pad[1] + (r % fH),
                  ox * stride[2] - pad[3] + ((r \div fH) % fW),
                  ot * stride[3] - pad[5] + ((r \div (fH * fW)) % fT),
                  r \div (fH * fW * fT), n)
              * At(f, r % fH, (r \div fH) % fW, (r \div (fH * fW)) % fT,
                   r \div (fH * fW * fT), kk)], vol)

RefGroups == Dim(data, 3) \div Dim(filters, 3)
RefFiltersPerGroup == Dim(filters, 4) \div RefGroups

\* Channels grp*fC .. (grp+1)*fC - 1 of t, as a tensor of its own.
ChannelSlice(t, grp, width) ==
  LET sp == Dim(t, 0) * Dim(t, 1) * Dim(t, 2)
  IN [present |-> TRUE,
      dims |-> <<Dim(t, 0), Dim(t, 1), Dim(t, 2), width, Dim(t, 4)>>,
      mem |-> [i \in 0..(sp * width * Dim(t, 4) - 1) |->
                 t.mem[(i % sp) + sp * ((grp * width + ((i \div sp) % width))
                                         + Dim(t, 3) * (i \div (sp * width)))]]]

\* Filters grp*count .. (grp+1)*count - 1 of f, as a filter bank of its own.
FilterSlice(f, grp, count) ==
  LET vol == Dim(f, 0) * Dim(f, 1) * Dim(f, 2) * Dim(f, 3)
  IN [present |-> TRUE,
      dims |-> <<Dim(f, 0), Dim(f, 1), Dim(f, 2), Dim(f, 3), count>>,
      mem |-> [j \in 0..(vol * count - 1) |-> f.mem[j + vol * count * grp]]]

\* The grouped convolution at flat index idx of a tensor shaped like o: the
\* concatenation over the groups of the single-group convolutions.
RefConv(o, idx) ==
  LET oH == Dim(o, 0)
      oW == Dim(o, 1)
      oT == Dim(o, 2)
      k == (idx \div (oH * oW * oT)) % Dim(o, 3)
      grp == k \div RefFiltersPerGroup
  IN DirectConv(ChannelSlice(data, grp, Dim(filters, 3)),
                FilterSlice(filters, grp, RefFiltersPerGroup),
                idx % oH, (idx \div oH) % oW, (idx \div (oH * oW)) % oT,
                k % RefFiltersPerGroup,
                idx \div (oH * oW * oT * Dim(o, 3)))

ChannelOf(o, idx) == (idx \div (Dim(o, 0) * Dim(o, 1) * Dim(o, 2))) % Dim(o, 3)
ImageOf(o, idx) == idx \div (Dim(o, 0) * Dim(o, 1) * Dim(o, 2) * Dim(o, 3))
Returned(what) == op = what /\ pc = "returned"
Succeeded(what) == Returned(what) /\ status = vlSuccess

\* ---- claims -------------------------------------------------------------

\* C3: after a successful forward call every output element equals
\* outputMult times its value before the call plus dataMult times the
\* convolution value, plus its channel's bias, added once and unscaled, when
\* a bias is present; so, without bias, the calls (0,1) then (1,1) on one
\* output buffer leave what the single call (0,2) leaves: twice the
\* convolution.
C3_ForwardScaling ==
  Succeeded("forward") =>
    /\ \A idx \in DOMAIN output.mem :
         output.mem[idx] =
           outputMult * outputBefore[idx] + dataMult * RefConv(output, idx)
             + (IF biases.present THEN biases.mem[ChannelOf(output, idx)] ELSE 0)
    /\ (~biases.present /\ hist \in {<<<<0, 1>>, <<1, 1>>>>, <<<<0, 2>>>>}) =>
         \A idx \in DOMAIN output.mem : output.mem[idx] = 2 * RefConv(output, idx)

C3_Witness ==
  /\ Succeeded("forward")
  /\ hist = <<<<0, 1>>, <<1, 1>>>>
  /\ ~biases.present
  /\ Dim(data, 4) = 2
  /\ numGroups = 2
  /\ \E idx \in DOMAIN output.mem : RefConv(output, idx) # 0

\* the blocks of the grouped addressing discipline
Block(off, len) == off..(off + len - 1)
PatchBlock(grp) ==
  Block(grp * numOutputPixels * filtersVolume, numOutputPixels * filtersVolume)
FilterBlock(grp) ==
  Block(grp * filtersVolume * numFiltersPerGroup, filtersVolume * numFiltersPerGroup)
OutputBlock(img, grp) ==
  Block(img * ImageVolume(output) + grp * numOutputPixels * numFiltersPerGroup,
        numOutputPixels * numFiltersPerGroup)

\* C6: in forward, group g's multiply reads exactly patch block g (offset
\* g*numOutputPixels*filterVolume) and filter block g (offset
\* g*filterVolume*numFiltersPerGroup) and writes exactly block g of the
\* image's output (offset g*numOutputPixels*numFiltersPerGroup); the blocks of
\* distinct groups are disjoint and cover the image's output; a successful
\* call leaves the concatenation of the single-group convolutions.
C6_GroupBlocks ==
  (op = "forward" /\ lastGemm.grp >= 0) =>
    /\ lastGemm.readsA = PatchBlock(lastGemm.grp)
    /\ lastGemm.readsB = FilterBlock(lastGemm.grp)
    /\ lastGemm.writes = OutputBlock(lastGemm.img, lastGemm.grp)
    /\ \A g1, g2 \in 0..(numGroups - 1) :
         g1 # g2 => /\ PatchBlock(g1) \cap PatchBlock(g2) = {}
                    /\ FilterBlock(g1) \cap FilterBlock(g2) = {}
                    /\ OutputBlock(lastGemm.img, g1) \cap OutputBlock(lastGemm.img, g2) = {}
    /\ UNION {OutputBlock(lastGemm.img, grp) : grp \in 0..(numGroups - 1)}
         = Block(lastGemm.img * ImageVolume(output), ImageVolume(output))
    /\ UNION {PatchBlock(grp) : grp \in 0..(numGroups - 1)} = DOMAIN tempMemory
    /\ UNION {FilterBlock(grp) : grp \in 0..(numGroups - 1)} = DOMAIN filters.mem
    /\ (Succeeded("forward") /\ Len(hist) = 1 /\ ~biases.present /\ outputMult = 0) =>
         \A idx \in DOMAIN output.mem :
           output.mem[idx] =
             dataMult * DirectConv(ChannelSlice(data, ChannelOf(output, idx)
                                                       \div numFiltersPerGroup,
                                                Dim(filters, 3)),
                                   FilterSlice(filters, ChannelOf(output, idx)
                                                          \div numFiltersPerGroup,
                                               numFiltersPerGroup),
                                   idx % Dim(output, 0),
                                   (idx \div Dim(output, 0)) % Dim(output, 1),
                                   (idx \div (Dim(output, 0) * Dim(output, 1)))
                                     % Dim(output, 2),
                                   ChannelOf(output, idx) % numFiltersPerGroup,
                                   ImageOf(output, idx))

C6_Witness ==
  /\ Succeeded("forward")
  /\ numGroups = 2
  /\ numOutputPixels = 2
  /\ lastGemm.grp = 1
  /\ lastGemm.img = 1
  /\ Len(hist) = 1 /\ ~biases.present /\ outputMult = 0

\* C7: once an acquisition or a primitive has reported failure, no further
\* primitive is invoked, and the call returns the error of the failing step,
\* never success.
C7_FailFast ==
  failedWith # None =>
    /\ ~primsAfterFail
    /\ pc \in {"done", "returned"}
    /\ failedWith # vlSuccess
    /\ pc = "returned" => status = failedWith

C7_Witness ==
  /\ Returned("backward")
  /\ failedWith = vlErrorCublas
  /\ image = 1
  /\ derFilters.present
  /\ "derFilters" \in written

\* C9: while forward processes image i, a step changes the output's backing
\* store only inside image i's range, and leaves data, filters, biases and the
\* ones vector as they are.
C9_ForwardFrame ==
  [][(op = "forward" /\ pc \in {"fwd_unfold", "fwd_gemm", "fwd_bias"}) =>
       /\ \A idx \in DOMAIN output.mem :
            idx \notin Block(image * ImageVolume(output), ImageVolume(output))
              => output'.mem[idx] = output.mem[idx]
       /\ DOMAIN output'.mem = DOMAIN output.mem
       /\ data' = data
       /\ filters' = filters
       /\ biases' = biases
       /\ allOnesMemory' = allOnesMemory]_vars

C9_Witness ==
  /\ op = "forward"
  /\ pc = "fwd_bias"
  /\ image = 1
  /\ lastGemm.img = 1
  /\ Dim(output, 3) = 2

\* the sum of derOutput over the positions and images of channel k
RefBiasGrad(k) ==
  Sum([i \in 0..(NumElements(derOutput) - 1) |->
         IF ChannelOf(derOutput, i) = k THEN derOutput.mem[i] ELSE 0],
      NumElements(derOutput))

C5_FilterGradBatchAdditive ==
  (Succeeded("backward") /\ derFilters.present /\ Dim(derOutput, 4) >= 1) =>
    \A i \in DOMAIN derFilters.mem :
      derFilters.mem[i] =
        Sum([j \in 0..(Dim(derOutput, 4) - 1) |->
               OneImageFilterGrad(j, MkMem(NumElements(derFilters), 500 + 100 * j))[i]],
            Dim(derOutput, 4))

C5_Witness ==
  /\ Succeeded("backward")
  /\ derFilters.present
  /\ Dim(derOutput, 4) = 2
  /\ numGroups = 2
  /\ \E i \in DOMAIN derFilters.mem :
       /\ OneImageFilterGrad(0, MkMem(NumElements(derFilters), 500))[i] # 0
       /\ OneImageFilterGrad(1, MkMem(NumElements(derFilters), 600))[i] # 0

\* the input-gradient at flat index idx: the adjoint of the grouped convolution
RefDataGrad(idx) ==
  LET H == Dim(derData, 0)
      W == Dim(derData, 1)
      T == Dim(derData, 2)
      c == (idx \div (H * W * T)) % Dim(derData, 3)
      n == idx \div (H * W * T * Dim(derData, 3))
      fH == Dim(filters, 0)
      fW == Dim(filters, 1)
      fT == Dim(filters, 2)
      sv == fH * fW * fT
      nPix == Dim(derOutput, 0) * Dim(derOutput, 1) * Dim(derOutput, 2)
      grp == c \div Dim(filters, 3)
      term(e) ==
        LET p == e % nPix
            r == (e \div nPix) % sv
            k == grp * RefFiltersPerGroup + (e \div (nPix * sv))
            oy == p % Dim(derOutput, 0)
            ox == (p \div Dim(derOutput, 0)) % Dim(derOutput, 1)
            ot == p \div (Dim(derOutput, 0) * Dim(derOutput, 1))
        IN IF /\ oy * stride[1] - pad[1] + (r % fH) = idx % H
              /\ ox * stride[2] - pad[3] + ((r \div fH) % fW) = (idx \div H) % W
              /\ ot * stride[3] - pad[5] + (r \div (fH * fW)) = (idx \div (H * W)) % T
           THEN At(derOutput, oy, ox, ot, k, n)
                  * At(filters, r % fH, (r \div fH) % fW, r \div (fH * fW),
                       c % Dim(filters, 3), k)
           ELSE 0
  IN Sum([e \in 0..(nPix * sv * RefFiltersPerGroup - 1) |-> term(e)],
         nPix * sv * RefFiltersPerGroup)

\* C8: in backward no multiply or fold consumes a workspace value left by an
\* earlier image or by the other branch, and each image's input-gradient is
\* the one its own output-gradient and the filters determine.
C8_WorkspaceReuse ==
  op = "backward" =>
    /\ ~staleRead
    /\ (Succeeded("backward") /\ derData.present) =>
         \A idx \in DOMAIN derData.mem : derData.mem[idx] = RefDataGrad(idx)

C8_Witness ==
  /\ Succeeded("backward")
  /\ derData.present
  /\ derFilters.present
  /\ Dim(derOutput, 4) = 2
  /\ numGroups = 2
  /\ \E idx \in DOMAIN derData.mem : RefDataGrad(idx) # 0

\* the status the error design names for a violated group-division invariant
ShapeMismatch == "ShapeMismatch"
BadShape ==
  /\ op = "forward" \/ derData.present \/ derFilters.present
  /\ ~ShapesValid(Dim(data, 3), Dim(filters, 3), Dim(filters, 4))

\* C1 (as claimed): a call whose filter channel count does not divide the
\* data's channel count, or whose filter count is no multiple of the group
\* count, invokes no primitive and returns ShapeMismatch.
C1_ShapeMismatchClaimed ==
  (BadShape /\ failedWith = None) =>
    /\ invoked = {}
    /\ pc = "returned" => status = ShapeMismatch

\* the gradient destinations the caller supplied
Supplied ==
  {n \in {"derData", "derFilters", "derBiases"} :
     \/ n = "derData" /\ derData.present
     \/ n = "derFilters" /\ derFilters.present
     \/ n = "derBiases" /\ derBiases.present}

\* C2 (as claimed): for every subset of the gradient destinations, backward
\* executes no division by zero, and with every primitive succeeding it
\* writes exactly the destinations supplied.
C2_AnySubsetClaimed ==
  op = "backward" =>
    /\ "div0" \notin ub
    /\ pc # "trap"
    /\ (Succeeded("backward") /\ failedWith = None /\ Dim(derOutput, 4) >= 1) =>
         written = Supplied

\* C10 (as claimed): a call in which every acquisition and primitive
\* succeeded returns vlSuccess, a value assigned during the call.
C10_SuccessStatusClaimed ==
  (pc = "returned" /\ failedWith = None) =>
    /\ status = vlSuccess
    /\ "uninit" \notin ub

=============================================================================
